---- MODULE Spec2Model ----
(***************************************************************************)
(* HRMS server: the identity and access core.                              *)
(*                                                                         *)
(* The stores are the MongoDB collections (users, companies, employees,    *)
(* serviceManagers, leaves); a document's _id is its index in the          *)
(* sequence.  Every HTTP                                                   *)
(* request is a record of `reqs`; a handler is split at its awaits on the  *)
(* database, each database operation being one atomic step, and the       *)
(* request record holds the handler's locals between the steps.  A        *)
(* handler whose outcome is fixed by its first read runs as one step.     *)
(* Absent fields (undefined) are 0.                                        *)
(***************************************************************************)
EXTENDS Integers, Sequences, FiniteSets, TLC

VARIABLES users, companies, employees, serviceManagers, leaves, reqs, sessions,
          nextToken, now, client

vars == <<users, companies, employees, serviceManagers, leaves, reqs, sessions,
          nextToken, now, client>>

----------------------------------------------------------------------------
(* Bounds of the model *)

MaxReq == 3

MaxTicks == 3

MaxTenantReq == 2

----------------------------------------------------------------------------
(* Program constants *)

ResetTTL == 3600000

InviteTTL == 86400000

----------------------------------------------------------------------------
(* Values *)

Null == 0

\* A string as the client sends it: no bcrypt layer around it.
Plain(s) == [h |-> 0, p |-> s]

\* bcrypt.hash: one more bcrypt layer around the value (the salt is left out:
\* bcrypt.compare does not depend on it).
Hash(x) == [h |-> x.h + 1, p |-> x.p]

\* bcrypt.compare(entered, stored): stored must be a bcrypt string, and the
\* one of `entered`; a stored value that is no bcrypt string compares false.
BcryptCompare(entered, stored) == stored.h >= 1 /\ stored = Hash(entered)

SuperAdminEmail == "superadmin@gmail.com"

SuperAdminPassword == Plain("superadmin@123")

Passwords == {SuperAdminPassword, Plain("newpass")}

Statuses == {1, 2}

\* User.create / Company.create fill the schema defaults.
NewUser(email, password, role, company) ==
    [email |-> email, password |-> password, role |-> role, company |-> company,
     status |-> 1, resetPasswordToken |-> Null, resetPasswordExpire |-> Null]

NewCompany(name, token, expires) ==
    [name |-> name, admin |-> Null, status |-> 1,
     invitationToken |-> token, invitationExpires |-> expires]

\* createSuperAdmin: the one place that hashes before User.create.
SuperAdminUser == NewUser(SuperAdminEmail, Hash(SuperAdminPassword), "superadmin", Null)

\* A request record: its inputs, the handler's locals and the response.
NoReq ==
    [op |-> "", pc |-> "done", principal |-> 0, token |-> 0, email |-> "",
     password |-> Plain(""), id |-> 0, status |-> 0, doc |-> 0, uid |-> 0,
     at |-> 0, match |-> FALSE, snap |-> 0, leaveStatus |-> "", code |-> 0,
     msg |-> "", newPassword |-> Plain("")]

\* utils/emailService.sendEmail: the promise resolves (TRUE) or rejects (FALSE).
MailOutcomes == BOOLEAN

\* The browser: the state of the App and LoginPage components, the entry
\* 'hrmsToken' of localStorage, and the position of the handler under way
\* ("mount": the effect has not run; "verifying" and "submitting": a fetch is
\* awaited; "ready": none).  A session token is written as its user's id.
NewClient(token) ==
    [pc |-> "mount", isAuthenticated |-> FALSE, user |-> Null, loadingAuth |-> TRUE,
     hrmsToken |-> token, loading |-> FALSE, error |-> "", req |-> 0]

Respond(r, code, msg) == [r EXCEPT !.pc = "done", !.code = code, !.msg = msg]

CanStart == Len(reqs) < MaxReq

----------------------------------------------------------------------------
(* Queries *)

\* User.findOne({ email })
FindUserByEmail(email) ==
    IF \E i \in DOMAIN users : users[i].email = email
    THEN CHOOSE i \in DOMAIN users : users[i].email = email
    ELSE 0

\* A mutation of EmailTaken: a collection without the unique index.
EmailTakenNoIndex(email) == FALSE

\* email: { unique: true }: User.create rejects an email a stored user holds.
EmailTaken(email) == \E i \in DOMAIN users : users[i].email = email

\* { resetPasswordToken: token, resetPasswordExpire: { $gt: Date.now() } }
ResetTokenValidGte(u, token, t) ==
    u.resetPasswordToken = token /\ u.resetPasswordExpire >= t

ResetTokenValid(u, token, t) ==
    u.resetPasswordToken = token /\ u.resetPasswordExpire > t

FindUserByResetToken(token, t) ==
    IF \E i \in DOMAIN users : ResetTokenValid(users[i], token, t)
    THEN CHOOSE i \in DOMAIN users : ResetTokenValid(users[i], token, t)
    ELSE 0

----------------------------------------------------------------------------
(* AuthGate (middleware/auth.js): a request carries the session token of  *)
(* user p (0: none); the gate attaches users[p] as req.user.              *)

Protect(p) == p \in sessions

----------------------------------------------------------------------------
(* authController.login *)

LoginResponseNoStatus(r, doc, match, status) ==
    IF doc # 0 /\ match
    THEN Respond(r, 200, "token")
    ELSE Respond(r, 401, "Invalid credentials")

LoginResponseLeaky(r, doc, match, status) ==
    IF doc # 0 /\ match
    THEN IF status # 1
         THEN Respond(r, 401, "Account is inactive")
         ELSE Respond(r, 200, "token")
    ELSE IF doc = 0
         THEN Respond(r, 404, "User not found")
         ELSE Respond(r, 401, "Invalid credentials")

\* A mutation of LoginResponse: the status is checked before the password.
LoginResponseStatusFirst(r, doc, match, status) ==
    IF doc # 0 /\ status # 1
    THEN Respond(r, 401, "Account is inactive")
    ELSE IF doc # 0 /\ match
    THEN Respond(r, 200, "token")
    ELSE Respond(r, 401, "Invalid credentials")

LoginResponse(r, doc, match, status) ==
    IF doc # 0 /\ match
    THEN IF status # 1
         THEN Respond(r, 401, "Account is inactive")
         ELSE Respond(r, 200, "token")
    ELSE Respond(r, 401, "Invalid credentials")

\* The handler of POST /auth/login.
LoginHandled(email, password) ==
    /\ CanStart
    /\ LET doc == FindUserByEmail(email)
           match == doc # 0 /\ BcryptCompare(password, users[doc].password)
           status == IF doc # 0 THEN users[doc].status ELSE 0
           r == [NoReq EXCEPT !.op = "login", !.email = email,
                              !.password = password, !.doc = doc, !.match = match]
           done == LoginResponse(r, doc, match, status)
       IN /\ reqs' = Append(reqs, done)
          /\ sessions' = IF done.code = 200 THEN sessions \cup {doc} ELSE sessions
    /\ UNCHANGED <<users, companies, employees, serviceManagers, leaves, nextToken, now>>

\* A login sent by any client but the browser below.
login(email, password) == LoginHandled(email, password) /\ UNCHANGED client

----------------------------------------------------------------------------
(* Client: App (verifyAuth, handleLoginSuccess, handleLogout) and           *)
(* LoginPage.handleSubmit.  The state updates of one handler run are         *)
(* committed together.                                                       *)

\* useEffect on mount: localStorage.getItem('hrmsToken'), then the fetch of
\* the profile when a token is stored.
verifyAuthStart ==
    /\ client.pc = "mount"
    /\ client' = IF client.hrmsToken = Null
                 THEN [client EXCEPT !.pc = "ready", !.loadingAuth = FALSE]
                 ELSE [client EXCEPT !.pc = "verifying"]
    /\ UNCHANGED <<users, companies, employees, serviceManagers, leaves, reqs, sessions, nextToken, now>>

\* The fetch of the profile: response.ok, another response, or a rejection.
ProfileOutcomes == {"ok", "rejected", "failed"}

verifyAuthResponse(outcome) ==
    /\ client.pc = "verifying"
    /\ client' = IF outcome = "ok"
                 THEN [client EXCEPT !.pc = "ready", !.isAuthenticated = TRUE,
                                     !.user = client.hrmsToken, !.loadingAuth = FALSE]
                 ELSE [client EXCEPT !.pc = "ready", !.isAuthenticated = FALSE,
                                     !.user = Null, !.hrmsToken = Null,
                                     !.loadingAuth = FALSE]
    /\ UNCHANGED <<users, companies, employees, serviceManagers, leaves, reqs, sessions, nextToken, now>>

\* LoginPage.handleSubmit up to the fetch; LoginPage is rendered when the
\* verification is over and nobody is authenticated.
handleSubmit(email, password) ==
    /\ client.pc = "ready" /\ ~client.loadingAuth /\ ~client.isAuthenticated
    /\ ~client.loading
    /\ IF email = "" \/ password = Plain("")
       THEN /\ client' = [client EXCEPT !.error = "Please enter both email and password."]
            /\ UNCHANGED <<users, companies, employees, serviceManagers, leaves, reqs, sessions, nextToken, now>>
       ELSE /\ LoginHandled(email, password)
            /\ client' = [client EXCEPT !.pc = "submitting", !.loading = TRUE,
                                        !.error = "", !.req = Len(reqs) + 1]

\* The rest of handleSubmit: on response.ok the token is stored and
\* handleLoginSuccess runs, which unmounts LoginPage.
handleSubmitResponse(failed) ==
    /\ client.pc = "submitting"
    /\ client' = IF failed
                 THEN [client EXCEPT !.pc = "ready", !.loading = FALSE,
                          !.error = "An unexpected error occurred. Please try again later."]
                 ELSE IF reqs[client.req].code = 200
                 THEN [client EXCEPT !.pc = "ready", !.loading = FALSE,
                          !.hrmsToken = reqs[client.req].doc,
                          !.isAuthenticated = TRUE, !.user = reqs[client.req].doc]
                 ELSE [client EXCEPT !.pc = "ready", !.loading = FALSE,
                          !.error = reqs[client.req].msg]
    /\ UNCHANGED <<users, companies, employees, serviceManagers, leaves, reqs, sessions, nextToken, now>>

\* A mutation of handleLogout: the stored token is left behind.
handleLogoutKeepsToken ==
    /\ client.pc = "ready" /\ ~client.loadingAuth /\ client.isAuthenticated
    /\ client' = [client EXCEPT !.isAuthenticated = FALSE, !.user = Null]
    /\ UNCHANGED <<users, companies, employees, serviceManagers, leaves, reqs, sessions, nextToken, now>>

\* DashboardPage's logout button is rendered when somebody is authenticated.
handleLogout ==
    /\ client.pc = "ready" /\ ~client.loadingAuth /\ client.isAuthenticated
    /\ client' = [client EXCEPT !.hrmsToken = Null, !.isAuthenticated = FALSE,
                                !.user = Null]
    /\ UNCHANGED <<users, companies, employees, serviceManagers, leaves, reqs, sessions, nextToken, now>>

----------------------------------------------------------------------------
(* authController.forgotPassword: Date.now() is read in the continuation   *)
(* of findOne, which the first step includes.                              *)

forgotPasswordFind(email) ==
    /\ CanStart
    /\ LET doc == FindUserByEmail(email)
           r == [NoReq EXCEPT !.op = "forgotPassword", !.email = email, !.doc = doc]
       IN IF doc = 0
          THEN /\ reqs' = Append(reqs, Respond(r, 404, "User not found"))
               /\ UNCHANGED nextToken
          ELSE /\ reqs' = Append(reqs, [r EXCEPT !.pc = "save", !.token = nextToken,
                                                 !.at = now])
               /\ nextToken' = nextToken + 1
    /\ UNCHANGED <<users, companies, employees, serviceManagers, leaves, sessions, now, client>>

\* A mutation of forgotPasswordSave: a token the user still holds is kept.
forgotPasswordSaveKeepsFirst(i) ==
    /\ reqs[i].op = "forgotPassword" /\ reqs[i].pc = "save"
    /\ users' = IF users[reqs[i].doc].resetPasswordToken # Null
                THEN users
                ELSE [users EXCEPT ![reqs[i].doc].resetPasswordToken = reqs[i].token,
                                   ![reqs[i].doc].resetPasswordExpire =
                                       reqs[i].at + ResetTTL]
    /\ reqs' = [reqs EXCEPT ![i].pc = "mail"]
    /\ UNCHANGED <<companies, employees, serviceManagers, leaves, sessions, nextToken, now, client>>

\* user.resetPasswordToken = resetToken; user.resetPasswordExpire = ...; user.save()
forgotPasswordSave(i) ==
    /\ reqs[i].op = "forgotPassword" /\ reqs[i].pc = "save"
    /\ users' = [users EXCEPT ![reqs[i].doc].resetPasswordToken = reqs[i].token,
                              ![reqs[i].doc].resetPasswordExpire = reqs[i].at + ResetTTL]
    /\ reqs' = [reqs EXCEPT ![i].pc = "mail"]
    /\ UNCHANGED <<companies, employees, serviceManagers, leaves, sessions, nextToken, now, client>>

\* A mutation of forgotPasswordMail: a failed delivery takes the token back.
forgotPasswordMailRollback(i) ==
    /\ reqs[i].op = "forgotPassword" /\ reqs[i].pc = "mail"
    /\ \E delivered \in MailOutcomes :
         /\ reqs' = [reqs EXCEPT ![i] = IF delivered
                                        THEN Respond(@, 200, "Password reset email sent")
                                        ELSE Respond(@, 500, "Server error")]
         /\ users' = IF delivered THEN users
                     ELSE [users EXCEPT ![reqs[i].doc].resetPasswordToken = Null,
                                        ![reqs[i].doc].resetPasswordExpire = Null]
    /\ UNCHANGED <<companies, employees, serviceManagers, leaves, sessions, nextToken, now, client>>

forgotPasswordMail(i) ==
    /\ reqs[i].op = "forgotPassword" /\ reqs[i].pc = "mail"
    /\ \E delivered \in MailOutcomes :
         reqs' = [reqs EXCEPT ![i] = IF delivered
                                     THEN Respond(@, 200, "Password reset email sent")
                                     ELSE Respond(@, 500, "Server error")]
    /\ UNCHANGED <<users, companies, employees, serviceManagers, leaves, sessions, nextToken, now, client>>

----------------------------------------------------------------------------
(* authController.resetPassword *)

resetPasswordFind(token, password) ==
    /\ CanStart
    /\ LET doc == FindUserByResetToken(token, now)
           r == [NoReq EXCEPT !.op = "resetPassword", !.token = token,
                              !.password = password, !.doc = doc, !.at = now]
       IN reqs' = Append(reqs, IF doc = 0
                               THEN Respond(r, 400, "Invalid or expired token")
                               ELSE [r EXCEPT !.pc = "save"])
    /\ UNCHANGED <<users, companies, employees, serviceManagers, leaves, sessions, nextToken, now, client>>

\* user.password = password: the value of the request body is stored as it is.
resetPasswordSave(i) ==
    /\ reqs[i].op = "resetPassword" /\ reqs[i].pc = "save"
    /\ users' = [users EXCEPT ![reqs[i].doc].password = reqs[i].password,
                              ![reqs[i].doc].resetPasswordToken = Null,
                              ![reqs[i].doc].resetPasswordExpire = Null]
    /\ reqs' = [reqs EXCEPT ![i] = Respond(@, 200, "Password reset successful")]
    /\ UNCHANGED <<companies, employees, serviceManagers, leaves, sessions, nextToken, now, client>>

----------------------------------------------------------------------------
(* userController.updateUserStatus *)

updateUserStatus(p, id, status) ==
    /\ CanStart
    /\ LET r == [NoReq EXCEPT !.op = "updateUserStatus", !.principal = p,
                              !.id = id, !.status = status]
       IN IF ~Protect(p)
          THEN /\ reqs' = Append(reqs, Respond(r, 401, "Not authorized"))
               /\ UNCHANGED users
          ELSE IF id \notin DOMAIN users
          THEN /\ reqs' = Append(reqs, Respond(r, 404, "User not found"))
               /\ UNCHANGED users
          ELSE IF users[p].role = "superadmin"
          THEN /\ users' = [users EXCEPT ![id].status = status]
               /\ reqs' = Append(reqs, Respond(r, 200, "user"))
          ELSE IF users[p].role = "companyadmin" /\ users[id].company = Null
          THEN \* user.company.equals on undefined throws: the catch answers 500
               /\ reqs' = Append(reqs, Respond(r, 500, "Server error"))
               /\ UNCHANGED users
          ELSE IF users[p].role = "companyadmin"
                  /\ users[id].company = users[p].company
          THEN /\ users' = [users EXCEPT ![id].status = status]
               /\ reqs' = Append(reqs, Respond(r, 200, "user"))
          ELSE /\ reqs' = Append(reqs, Respond(r, 403, "Not authorized"))
               /\ UNCHANGED users
    /\ UNCHANGED <<companies, employees, serviceManagers, leaves, sessions, nextToken, now, client>>

----------------------------------------------------------------------------
(* middleware/role.js *)

superAdminOnlyAnyAdmin(p) ==
    p \in DOMAIN users /\ users[p].role \in {"superadmin", "companyadmin"}

superAdminOnly(p) == p \in DOMAIN users /\ users[p].role = "superadmin"

companyAdminOnly(p) == p \in DOMAIN users /\ users[p].role = "companyadmin"

serviceManagerOnly(p) == p \in DOMAIN users /\ users[p].role = "servicemanager"

employeeOnly(p) == p \in DOMAIN users /\ users[p].role = "employee"

Gates == {"superAdminOnly", "companyAdminOnly", "serviceManagerOnly", "employeeOnly"}

GatePasses(g, p) ==
    CASE g = "superAdminOnly" -> superAdminOnly(p)
      [] g = "companyAdminOnly" -> companyAdminOnly(p)
      [] g = "serviceManagerOnly" -> serviceManagerOnly(p)
      [] g = "employeeOnly" -> employeeOnly(p)

GateMessage(g) ==
    CASE g = "superAdminOnly" -> "Forbidden: Super Admin access only"
      [] g = "companyAdminOnly" -> "Forbidden: Company Admin access only"
      [] g = "serviceManagerOnly" -> "Forbidden: Service Manager access only"
      [] g = "employeeOnly" -> "Forbidden: Employee access only"

\* A request to a route behind gate g whose req.user is users[p] (p = 0: no
\* principal attached): the gate calls next() or answers 403.
roleGate(g, p) ==
    /\ CanStart
    /\ LET r == [NoReq EXCEPT !.op = g, !.principal = p]
       IN reqs' = Append(reqs, IF GatePasses(g, p)
                               THEN Respond(r, 200, "next")
                               ELSE Respond(r, 403, GateMessage(g)))
    /\ UNCHANGED <<users, companies, employees, serviceManagers, leaves, sessions,
                   nextToken, now, client>>

----------------------------------------------------------------------------
(* companyController.createCompany *)

CompanyNames == {"Acme", "Globex"}

createCompany(p, name, delivered) ==
    /\ CanStart
    /\ LET r == [NoReq EXCEPT !.op = "createCompany", !.principal = p, !.at = now]
       IN IF ~Protect(p)
          THEN /\ reqs' = Append(reqs, Respond(r, 401, "Not authorized"))
               /\ UNCHANGED <<companies, nextToken>>
          ELSE IF ~superAdminOnly(p)
          THEN /\ reqs' = Append(reqs, Respond(r, 403, "Forbidden: Super Admin access only"))
               /\ UNCHANGED <<companies, nextToken>>
          ELSE IF \E c \in DOMAIN companies : companies[c].name = name
          THEN \* the unique index on name rejects the insert
               /\ reqs' = Append(reqs, Respond([r EXCEPT !.token = nextToken],
                                               500, "Server error"))
               /\ nextToken' = nextToken + 1
               /\ UNCHANGED companies
          ELSE /\ companies' = Append(companies,
                                      NewCompany(name, nextToken, now + InviteTTL))
               /\ nextToken' = nextToken + 1
               /\ reqs' = Append(reqs,
                     IF delivered
                     THEN Respond([r EXCEPT !.token = nextToken,
                                            !.doc = Len(companies) + 1], 201, "company")
                     ELSE Respond([r EXCEPT !.token = nextToken,
                                            !.doc = Len(companies) + 1], 500, "Server error"))
    /\ UNCHANGED <<users, employees, serviceManagers, leaves, sessions, now, client>>

----------------------------------------------------------------------------
(* companyController.acceptInvitation *)

\* { invitationToken: token, invitationExpires: { $gt: Date.now() } }
InvitationValidGte(c, token, t) ==
    c.invitationToken = token /\ c.invitationExpires >= t

InvitationValid(c, token, t) ==
    c.invitationToken = token /\ c.invitationExpires > t

FindCompanyByInvitation(token, t) ==
    IF \E i \in DOMAIN companies : InvitationValid(companies[i], token, t)
    THEN CHOOSE i \in DOMAIN companies : InvitationValid(companies[i], token, t)
    ELSE 0

acceptInvitationFind(token, email, password) ==
    /\ CanStart
    /\ LET doc == FindCompanyByInvitation(token, now)
           r == [NoReq EXCEPT !.op = "acceptInvitation", !.token = token,
                              !.email = email, !.password = password,
                              !.doc = doc, !.at = now]
       IN reqs' = Append(reqs, IF doc = 0
                               THEN Respond(r, 400, "Invalid or expired token")
                               ELSE [r EXCEPT !.pc = "create",
                                              !.snap = companies[doc].status])
    /\ UNCHANGED <<users, companies, employees, serviceManagers, leaves, sessions, nextToken, now, client>>

\* User.create({ name, email, password, role: 'companyadmin', company })
acceptInvitationCreate(i) ==
    /\ reqs[i].op = "acceptInvitation" /\ reqs[i].pc = "create"
    /\ IF EmailTaken(reqs[i].email)
       THEN \* the unique index on email rejects the insert
            /\ reqs' = [reqs EXCEPT ![i] = Respond(@, 500, "Server error")]
            /\ UNCHANGED users
       ELSE /\ users' = Append(users, NewUser(reqs[i].email, reqs[i].password,
                                              "companyadmin", reqs[i].doc))
            /\ reqs' = [reqs EXCEPT ![i].pc = "save", ![i].uid = Len(users) + 1]
    /\ UNCHANGED <<companies, employees, serviceManagers, leaves, sessions, nextToken, now, client>>

\* company.save() writes the paths the handler modified; status is one only
\* when the document read did not already hold 1.
CompanyAccepted(c, r) ==
    [c EXCEPT !.admin = r.uid,
              !.status = IF r.snap # 1 THEN 1 ELSE @,
              !.invitationToken = Null,
              !.invitationExpires = Null]

acceptInvitationSaveKeepsToken(i) ==
    /\ reqs[i].op = "acceptInvitation" /\ reqs[i].pc = "save"
    /\ companies' = [companies EXCEPT ![reqs[i].doc].admin = reqs[i].uid]
    /\ reqs' = [reqs EXCEPT ![i] = Respond(@, 201, "Company activated successfully")]
    /\ UNCHANGED <<users, employees, serviceManagers, leaves, sessions, nextToken, now, client>>

acceptInvitationSave(i) ==
    /\ reqs[i].op = "acceptInvitation" /\ reqs[i].pc = "save"
    /\ companies' = [companies EXCEPT ![reqs[i].doc] = CompanyAccepted(@, reqs[i])]
    /\ reqs' = [reqs EXCEPT ![i] = Respond(@, 201, "Company activated successfully")]
    /\ UNCHANGED <<users, employees, serviceManagers, leaves, sessions, nextToken, now, client>>

----------------------------------------------------------------------------
(* companyController.getCompanies *)

getCompanies(p) ==
    /\ CanStart
    /\ LET r == [NoReq EXCEPT !.op = "getCompanies", !.principal = p]
       IN reqs' = Append(reqs,
              IF ~Protect(p) THEN Respond(r, 401, "Not authorized")
              ELSE IF ~superAdminOnly(p)
              THEN Respond(r, 403, "Forbidden: Super Admin access only")
              ELSE Respond(r, 200, "companies"))
    /\ UNCHANGED <<users, companies, employees, serviceManagers, leaves, sessions,
                   nextToken, now, client>>

----------------------------------------------------------------------------
(* companyController.updateCompanyStatus *)

\* A mutation of updateCompanyStatus: deactivation removes the admin reference.
updateCompanyStatusDropsAdmin(p, id, status) ==
    /\ CanStart
    /\ LET r == [NoReq EXCEPT !.op = "updateCompanyStatus", !.principal = p,
                              !.id = id, !.status = status]
       IN IF ~Protect(p)
          THEN /\ reqs' = Append(reqs, Respond(r, 401, "Not authorized"))
               /\ UNCHANGED companies
          ELSE IF ~superAdminOnly(p)
          THEN /\ reqs' = Append(reqs, Respond(r, 403, "Forbidden: Super Admin access only"))
               /\ UNCHANGED companies
          ELSE IF id \notin DOMAIN companies
          THEN /\ reqs' = Append(reqs, Respond(r, 404, "Company not found"))
               /\ UNCHANGED companies
          ELSE /\ companies' = [companies EXCEPT ![id].status = status,
                                                 ![id].admin = IF status = 2 THEN Null ELSE @]
               /\ reqs' = Append(reqs, Respond(r, 200, "Company status updated"))
    /\ UNCHANGED <<users, employees, serviceManagers, leaves, sessions, nextToken, now, client>>

updateCompanyStatus(p, id, status) ==
    /\ CanStart
    /\ LET r == [NoReq EXCEPT !.op = "updateCompanyStatus", !.principal = p,
                              !.id = id, !.status = status]
       IN IF ~Protect(p)
          THEN /\ reqs' = Append(reqs, Respond(r, 401, "Not authorized"))
               /\ UNCHANGED companies
          ELSE IF ~superAdminOnly(p)
          THEN /\ reqs' = Append(reqs, Respond(r, 403, "Forbidden: Super Admin access only"))
               /\ UNCHANGED companies
          ELSE IF id \notin DOMAIN companies
          THEN /\ reqs' = Append(reqs, Respond(r, 404, "Company not found"))
               /\ UNCHANGED companies
          ELSE /\ companies' = [companies EXCEPT ![id].status = status]
               /\ reqs' = Append(reqs, Respond(r, 200, "Company status updated"))
    /\ UNCHANGED <<users, employees, serviceManagers, leaves, sessions, nextToken, now, client>>

----------------------------------------------------------------------------
(* userController.changePassword *)

\* A mutation of changePasswordFind: the current password is not verified.
changePasswordFindNoVerify(id, currentPassword, newPassword) ==
    /\ CanStart
    /\ LET r == [NoReq EXCEPT !.op = "changePassword", !.id = id,
                              !.password = currentPassword,
                              !.newPassword = newPassword, !.at = now]
       IN reqs' = Append(reqs,
            IF id \notin DOMAIN users THEN Respond(r, 404, "User not found")
            ELSE [r EXCEPT !.pc = "save", !.doc = id, !.snap = users[id].status,
                           !.match = BcryptCompare(currentPassword, users[id].password)])
    /\ UNCHANGED <<users, companies, employees, serviceManagers, leaves, sessions, nextToken, now, client>>

\* User.findById(req.params.id), then user.matchPassword(req.body.currentPassword)
changePasswordFind(id, currentPassword, newPassword) ==
    /\ CanStart
    /\ LET r == [NoReq EXCEPT !.op = "changePassword", !.id = id,
                              !.password = currentPassword,
                              !.newPassword = newPassword, !.at = now]
       IN reqs' = Append(reqs,
            IF id \notin DOMAIN users THEN Respond(r, 404, "User not found")
            ELSE IF ~BcryptCompare(currentPassword, users[id].password)
            THEN Respond([r EXCEPT !.doc = id], 400, "Current password is incorrect")
            ELSE [r EXCEPT !.pc = "save", !.doc = id, !.snap = users[id].status,
                           !.match = TRUE])
    /\ UNCHANGED <<users, companies, employees, serviceManagers, leaves, sessions, nextToken, now, client>>

\* A mutation of changePasswordSave: the whole document read is written back.
changePasswordSaveWholeDocument(i) ==
    /\ reqs[i].op = "changePassword" /\ reqs[i].pc = "save"
    /\ users' = [users EXCEPT ![reqs[i].doc].password = reqs[i].newPassword,
                              ![reqs[i].doc].status = reqs[i].snap]
    /\ reqs' = [reqs EXCEPT ![i] = Respond(@, 200, "Password changed successfully")]
    /\ UNCHANGED <<companies, employees, serviceManagers, leaves, sessions, nextToken, now, client>>

\* user.password = req.body.newPassword; user.save() writes the modified path.
changePasswordSave(i) ==
    /\ reqs[i].op = "changePassword" /\ reqs[i].pc = "save"
    /\ users' = [users EXCEPT ![reqs[i].doc].password = reqs[i].newPassword]
    /\ reqs' = [reqs EXCEPT ![i] = Respond(@, 200, "Password changed successfully")]
    /\ UNCHANGED <<companies, employees, serviceManagers, leaves, sessions, nextToken, now, client>>

----------------------------------------------------------------------------
(* employeeController.createEmployee *)

\* protect, companyAdminOnly, then User.findOne({ email })
createEmployeeFind(p, email, password) ==
    /\ CanStart
    /\ LET r == [NoReq EXCEPT !.op = "createEmployee", !.principal = p,
                              !.email = email, !.password = password, !.at = now]
       IN reqs' = Append(reqs,
            IF ~Protect(p) THEN Respond(r, 401, "Not authorized")
            ELSE IF ~companyAdminOnly(p)
            THEN Respond(r, 403, "Forbidden: Company Admin access only")
            ELSE IF FindUserByEmail(email) # 0
            THEN Respond(r, 400, "User already exists")
            ELSE [r EXCEPT !.pc = "create", !.snap = users[p].company])
    /\ UNCHANGED <<users, companies, employees, serviceManagers, leaves, sessions, nextToken, now, client>>

\* User.create({ name, email, password, role: 'employee', company: req.user.company })
createEmployeeCreate(i) ==
    /\ reqs[i].op = "createEmployee" /\ reqs[i].pc = "create"
    /\ IF EmailTaken(reqs[i].email)
       THEN /\ reqs' = [reqs EXCEPT ![i] = Respond(@, 500, "Server error")]
            /\ UNCHANGED users
       ELSE /\ users' = Append(users, NewUser(reqs[i].email, reqs[i].password,
                                              "employee", reqs[i].snap))
            /\ reqs' = [reqs EXCEPT ![i].pc = "record", ![i].uid = Len(users) + 1]
    /\ UNCHANGED <<companies, employees, serviceManagers, leaves, sessions, nextToken, now, client>>

\* Employee.create({ user: user._id, company: req.user.company, ... })
createEmployeeRecord(i) ==
    /\ reqs[i].op = "createEmployee" /\ reqs[i].pc = "record"
    /\ employees' = Append(employees, [user |-> reqs[i].uid, company |-> reqs[i].snap])
    /\ reqs' = [reqs EXCEPT ![i] = Respond([@ EXCEPT !.doc = Len(employees) + 1],
                                           201, "employee")]
    /\ UNCHANGED <<users, companies, serviceManagers, leaves, sessions, nextToken, now, client>>

----------------------------------------------------------------------------
(* serviceManagerController.createServiceManager *)

createServiceManagerFind(p, email, password) ==
    /\ CanStart
    /\ LET r == [NoReq EXCEPT !.op = "createServiceManager", !.principal = p,
                              !.email = email, !.password = password, !.at = now]
       IN reqs' = Append(reqs,
            IF ~Protect(p) THEN Respond(r, 401, "Not authorized")
            ELSE IF ~companyAdminOnly(p)
            THEN Respond(r, 403, "Forbidden: Company Admin access only")
            ELSE IF FindUserByEmail(email) # 0
            THEN Respond(r, 400, "User already exists")
            ELSE [r EXCEPT !.pc = "create", !.snap = users[p].company])
    /\ UNCHANGED <<users, companies, employees, serviceManagers, leaves, sessions, nextToken, now, client>>

\* A mutation of createServiceManagerCreate: the user is stored without the
\* principal's company.
createServiceManagerCreateNoCompany(i) ==
    /\ reqs[i].op = "createServiceManager" /\ reqs[i].pc = "create"
    /\ IF EmailTaken(reqs[i].email)
       THEN /\ reqs' = [reqs EXCEPT ![i] = Respond(@, 500, "Server error")]
            /\ UNCHANGED users
       ELSE /\ users' = Append(users, NewUser(reqs[i].email, reqs[i].password,
                                              "servicemanager", Null))
            /\ reqs' = [reqs EXCEPT ![i].pc = "record", ![i].uid = Len(users) + 1]
    /\ UNCHANGED <<companies, employees, serviceManagers, leaves, sessions, nextToken, now, client>>

\* User.create({ name, email, password, role: 'servicemanager', company: req.user.company })
createServiceManagerCreate(i) ==
    /\ reqs[i].op = "createServiceManager" /\ reqs[i].pc = "create"
    /\ IF EmailTaken(reqs[i].email)
       THEN /\ reqs' = [reqs EXCEPT ![i] = Respond(@, 500, "Server error")]
            /\ UNCHANGED users
       ELSE /\ users' = Append(users, NewUser(reqs[i].email, reqs[i].password,
                                              "servicemanager", reqs[i].snap))
            /\ reqs' = [reqs EXCEPT ![i].pc = "record", ![i].uid = Len(users) + 1]
    /\ UNCHANGED <<companies, employees, serviceManagers, leaves, sessions, nextToken, now, client>>

\* ServiceManager.create({ user: user._id, company: req.user.company, department })
createServiceManagerRecord(i) ==
    /\ reqs[i].op = "createServiceManager" /\ reqs[i].pc = "record"
    /\ serviceManagers' = Append(serviceManagers,
                                 [user |-> reqs[i].uid, company |-> reqs[i].snap])
    /\ reqs' = [reqs EXCEPT ![i] = Respond([@ EXCEPT !.doc = Len(serviceManagers) + 1],
                                           201, "serviceManager")]
    /\ UNCHANGED <<users, companies, employees, leaves, sessions, nextToken, now, client>>

----------------------------------------------------------------------------
(* createSuperAdmin, run by every server process when it starts *)

\* User.findOne({ email: 'superadmin@gmail.com' })
createSuperAdminFind ==
    /\ CanStart
    /\ LET r == [NoReq EXCEPT !.op = "createSuperAdmin", !.email = SuperAdminEmail,
                              !.at = now]
       IN reqs' = Append(reqs,
            IF FindUserByEmail(SuperAdminEmail) # 0
            THEN [r EXCEPT !.msg = "Super Admin already exists."]
            ELSE [r EXCEPT !.pc = "create"])
    /\ UNCHANGED <<users, companies, employees, serviceManagers, leaves, sessions, nextToken, now, client>>

\* A mutation of createSuperAdminCreate: an upsert, which rewrites the
\* password of the superadmin it finds.
createSuperAdminCreateUpsert(i) ==
    /\ reqs[i].op = "createSuperAdmin" /\ reqs[i].pc = "create"
    /\ IF EmailTaken(SuperAdminEmail)
       THEN /\ reqs' = [reqs EXCEPT ![i].pc = "done",
                                    ![i].msg = "Super Admin created"]
            /\ users' = [users EXCEPT ![FindUserByEmail(SuperAdminEmail)].password =
                                          Hash(SuperAdminPassword)]
       ELSE /\ users' = Append(users, SuperAdminUser)
            /\ reqs' = [reqs EXCEPT ![i].pc = "done", ![i].uid = Len(users) + 1,
                                    ![i].msg = "Super Admin created"]
    /\ UNCHANGED <<companies, employees, serviceManagers, leaves, sessions, nextToken, now, client>>

\* bcrypt.hash, then User.create({ ..., role: 'superadmin' }); a rejection
\* is logged by the catch.
createSuperAdminCreate(i) ==
    /\ reqs[i].op = "createSuperAdmin" /\ reqs[i].pc = "create"
    /\ IF EmailTaken(SuperAdminEmail)
       THEN /\ reqs' = [reqs EXCEPT ![i].pc = "done",
                                    ![i].msg = "Error creating super admin:"]
            /\ UNCHANGED users
       ELSE /\ users' = Append(users, SuperAdminUser)
            /\ reqs' = [reqs EXCEPT ![i].pc = "done", ![i].uid = Len(users) + 1,
                                    ![i].msg = "Super Admin created"]
    /\ UNCHANGED <<companies, employees, serviceManagers, leaves, sessions, nextToken, now, client>>

----------------------------------------------------------------------------
(* employeeController.updateEmployeeStatus *)

updateEmployeeStatus(p, id, status) ==
    /\ CanStart
    /\ LET r == [NoReq EXCEPT !.op = "updateEmployeeStatus", !.principal = p,
                              !.id = id, !.status = status]
       IN IF ~Protect(p)
          THEN /\ reqs' = Append(reqs, Respond(r, 401, "Not authorized"))
               /\ UNCHANGED users
          ELSE IF ~companyAdminOnly(p)
          THEN /\ reqs' = Append(reqs, Respond(r, 403, "Forbidden: Company Admin access only"))
               /\ UNCHANGED users
          ELSE IF id \notin DOMAIN employees
          THEN /\ reqs' = Append(reqs, Respond(r, 404, "Employee not found"))
               /\ UNCHANGED users
          ELSE \* User.findByIdAndUpdate(employee.user, { status })
               /\ users' = [users EXCEPT ![employees[id].user].status = status]
               /\ reqs' = Append(reqs, Respond(r, 200, "Employee status updated"))
    /\ UNCHANGED <<companies, employees, serviceManagers, leaves, sessions, nextToken, now, client>>

----------------------------------------------------------------------------
(* leaveController.createLeave *)

\* Employee.findOne({ user: req.user._id })
FindEmployeeByUser(u) ==
    IF \E e \in DOMAIN employees : employees[e].user = u
    THEN CHOOSE e \in DOMAIN employees : employees[e].user = u
    ELSE 0

createLeaveFind(p) ==
    /\ CanStart
    /\ LET r == [NoReq EXCEPT !.op = "createLeave", !.principal = p, !.at = now]
       IN reqs' = Append(reqs,
            IF ~Protect(p) THEN Respond(r, 401, "Not authorized")
            ELSE IF FindEmployeeByUser(p) = 0
            THEN Respond(r, 404, "Employee not found")
            ELSE [r EXCEPT !.pc = "create", !.id = FindEmployeeByUser(p),
                           !.snap = employees[FindEmployeeByUser(p)].company])
    /\ UNCHANGED <<users, companies, employees, serviceManagers, leaves, sessions, nextToken, now, client>>

\* A mutation of createLeaveCreate: the leave goes to the first company.
createLeaveCreateFirstCompany(i) ==
    /\ reqs[i].op = "createLeave" /\ reqs[i].pc = "create"
    /\ leaves' = Append(leaves, [employee |-> reqs[i].id, company |-> 1,
                                 status |-> "pending"])
    /\ reqs' = [reqs EXCEPT ![i] = Respond([@ EXCEPT !.doc = Len(leaves) + 1],
                                           201, "leave")]
    /\ UNCHANGED <<users, companies, employees, serviceManagers, sessions, nextToken, now, client>>

\* Leave.create({ employee: employee._id, company: employee.company, ... })
createLeaveCreate(i) ==
    /\ reqs[i].op = "createLeave" /\ reqs[i].pc = "create"
    /\ leaves' = Append(leaves, [employee |-> reqs[i].id, company |-> reqs[i].snap,
                                 status |-> "pending"])
    /\ reqs' = [reqs EXCEPT ![i] = Respond([@ EXCEPT !.doc = Len(leaves) + 1],
                                           201, "leave")]
    /\ UNCHANGED <<users, companies, employees, serviceManagers, sessions, nextToken, now, client>>

----------------------------------------------------------------------------
(* leaveController.updateLeaveStatus *)

LeaveStatuses == {"approved", "rejected"}

updateLeaveStatus(p, id, status) ==
    /\ CanStart
    /\ LET r == [NoReq EXCEPT !.op = "updateLeaveStatus", !.principal = p,
                              !.id = id, !.leaveStatus = status]
       IN IF ~Protect(p)
          THEN /\ reqs' = Append(reqs, Respond(r, 401, "Not authorized"))
               /\ UNCHANGED leaves
          ELSE IF ~companyAdminOnly(p)
          THEN /\ reqs' = Append(reqs, Respond(r, 403, "Forbidden: Company Admin access only"))
               /\ UNCHANGED leaves
          ELSE IF id \notin DOMAIN leaves
          THEN /\ reqs' = Append(reqs, Respond(r, 404, "Leave not found"))
               /\ UNCHANGED leaves
          ELSE IF users[p].role # "companyadmin"
          THEN /\ reqs' = Append(reqs, Respond(r, 403, "Not authorized"))
               /\ UNCHANGED leaves
          ELSE /\ leaves' = [leaves EXCEPT ![id].status = status]
               /\ reqs' = Append(reqs, Respond(r, 200, "leave"))
    /\ UNCHANGED <<users, companies, employees, serviceManagers, sessions, nextToken, now, client>>

----------------------------------------------------------------------------
(* The clock: Date.now() *)

Tick(step) ==
    /\ now + step <= MaxTicks * step
    /\ now' = now + step
    /\ UNCHANGED <<users, companies, employees, serviceManagers, leaves, reqs, sessions, nextToken, client>>

----------------------------------------------------------------------------
(* The authentication workflows on a database holding the bootstrapped    *)
(* superadmin.                                                             *)

InitAuth ==
    /\ users = <<SuperAdminUser>>
    /\ companies = <<>>
    /\ employees = <<>>
    /\ serviceManagers = <<>>
    /\ leaves = <<>>
    /\ reqs = <<>>
    /\ sessions = {}
    /\ nextToken = 1
    /\ now = 0
    /\ client = NewClient(Null)

NextAuth ==
    \/ \E e \in {SuperAdminEmail, "a@b.com"}, pw \in Passwords : login(e, pw)
    \/ \E e \in {SuperAdminEmail, "a@b.com"} : forgotPasswordFind(e)
    \/ \E i \in DOMAIN reqs : forgotPasswordSave(i)
    \/ \E i \in DOMAIN reqs : forgotPasswordMail(i)
    \/ \E tk \in 1..nextToken : resetPasswordFind(tk, Plain("newpass"))
    \/ \E i \in DOMAIN reqs : resetPasswordSave(i)
    \/ \E p \in sessions, id \in DOMAIN users, st \in Statuses : updateUserStatus(p, id, st)
    \/ Tick(ResetTTL \div 2)

SpecAuth == InitAuth /\ [][NextAuth]_vars

----------------------------------------------------------------------------
(* Properties of the authentication workflows *)

\* The request a step has just received, when it received one.
Received == Len(reqs') = Len(reqs) + 1

New == reqs'[Len(reqs')]

\* C2: for any reset token, at most one resetPassword call presenting it
\* succeeds and changes the password.
C2_ResetTokenRedeemedOnce ==
    \A i, j \in DOMAIN reqs :
        (/\ reqs[i].op = "resetPassword" /\ reqs[j].op = "resetPassword"
         /\ reqs[i].token = reqs[j].token
         /\ reqs[i].code = 200 /\ reqs[j].code = 200) => i = j

\* C5: login answers 200 with a session token exactly when the supplied
\* password matches the stored hash and the status is active; a mismatch is
\* 401 Invalid credentials, a match on an inactive account 401 Account is
\* inactive.
C5_LoginIffMatchAndActive ==
    [][(Received /\ New.op = "login" /\ FindUserByEmail(New.email) # 0) =>
        LET u == users[FindUserByEmail(New.email)]
            matches == BcryptCompare(New.password, u.password)
        IN /\ (New.code = 200) <=> (matches /\ u.status = 1)
           /\ (New.code = 200) <=> (sessions' = sessions \cup {FindUserByEmail(New.email)}
                                     /\ New.msg = "token")
           /\ (New.code # 200) => sessions' = sessions
           /\ ~matches => (New.code = 401 /\ New.msg = "Invalid credentials")
           /\ (matches /\ u.status # 1) =>
                  (New.code = 401 /\ New.msg = "Account is inactive")]_vars

C5_Witness ==
    \E i, j \in DOMAIN reqs :
        /\ reqs[i].op = "login" /\ reqs[i].code = 200
        /\ reqs[j].op = "login" /\ reqs[j].msg = "Account is inactive"

\* C6: forgotPassword(email), then resetPassword(token, newPassword) before
\* the expiry, then login(email, newPassword) succeeds; a second
\* resetPassword with the same token fails with 400.
C6_ResetRoundTrip ==
    [][(/\ Len(reqs) >= 2
        /\ reqs[1].op = "forgotPassword" /\ reqs[1].code = 200
        /\ reqs[2].op = "resetPassword" /\ reqs[2].code = 200
        /\ reqs[2].token = reqs[1].token
        /\ users[reqs[1].doc].status = 1
        /\ Len(reqs) = 2
        /\ Received) =>
         /\ (New.op = "login" /\ New.email = reqs[1].email
                /\ New.password = reqs[2].password) => New.code = 200
         /\ (New.op = "resetPassword" /\ New.token = reqs[2].token) => New.code = 400]_vars

\* C7: a reset token is redeemable only strictly before its expiry: a
\* resetPassword whose token is held by no user whose expiry is after the
\* time of the call is answered 400 and changes no user.
C7_ExpiredResetTokenRejected ==
    [][(Received /\ New.op = "resetPassword") =>
        LET holders == {u \in DOMAIN users : users[u].resetPasswordToken = New.token}
        IN /\ (\A u \in holders : now >= users[u].resetPasswordExpire) =>
                  (New.pc = "done" /\ New.code = 400 /\ users' = users)
           /\ New.pc # "done" =>
                  (New.doc \in holders /\ now < users[New.doc].resetPasswordExpire)]_vars

C7_Witness ==
    \E i \in DOMAIN reqs, u \in DOMAIN users :
        /\ reqs[i].op = "resetPassword" /\ reqs[i].code = 400
        /\ reqs[i].token # Null
        /\ users[u].resetPasswordToken = reqs[i].token
        /\ reqs[i].at = users[u].resetPasswordExpire
        /\ users[u].password = Hash(SuperAdminPassword)

\* C10: login answers an unknown email and a wrong password for a known
\* email alike.
C10_LoginUniformFailure ==
    \A i, j \in DOMAIN reqs :
        (/\ reqs[i].op = "login" /\ reqs[i].doc = 0
         /\ reqs[j].op = "login" /\ reqs[j].doc # 0 /\ ~reqs[j].match)
        => (reqs[i].code = reqs[j].code /\ reqs[i].msg = reqs[j].msg
            /\ reqs[i].code = 401 /\ reqs[i].msg = "Invalid credentials")

C10_Witness ==
    \E i, j \in DOMAIN reqs :
        /\ reqs[i].op = "login" /\ reqs[i].doc = 0
        /\ reqs[j].op = "login" /\ reqs[j].doc # 0 /\ ~reqs[j].match

\* C11: forgotPassword answers a request for an unknown email exactly as it
\* answers one for the email of a user (whose mail was delivered).
C11_ForgotPasswordUniform ==
    \A i, j \in DOMAIN reqs :
        (/\ reqs[i].op = "forgotPassword" /\ reqs[i].pc = "done" /\ reqs[i].doc = 0
         /\ reqs[j].op = "forgotPassword" /\ reqs[j].pc = "done" /\ reqs[j].doc # 0
         /\ reqs[j].code # 500)
        => (reqs[i].code = reqs[j].code /\ reqs[i].msg = reqs[j].msg)

\* C25: login checks the password before the status.  A wrong password
\* for an inactive user is answered 401 Invalid credentials; Account is
\* inactive is answered only to the correct password; and a user who is
\* inactive when login reads it gets no session token.
C25_PasswordBeforeStatus ==
    [][(Received /\ New.op = "login" /\ FindUserByEmail(New.email) # 0) =>
        LET u == users[FindUserByEmail(New.email)]
        IN /\ (u.status # 1 /\ ~BcryptCompare(New.password, u.password)) =>
                  (New.code = 401 /\ New.msg = "Invalid credentials")
           /\ New.msg = "Account is inactive" =>
                  (BcryptCompare(New.password, u.password) /\ u.status # 1)
           /\ u.status # 1 =>
                  (New.code # 200 /\ New.msg # "token" /\ sessions' = sessions)]_vars

\* A logged-in user was deactivated and then tried a wrong password.
C25_Witness ==
    \E j, k \in DOMAIN reqs :
        /\ j < k
        /\ reqs[j].op = "updateUserStatus" /\ reqs[j].code = 200
        /\ reqs[j].status = 2
        /\ reqs[k].op = "login" /\ reqs[k].doc = reqs[j].id /\ ~reqs[k].match
        /\ users[reqs[k].doc].status = 2
        /\ reqs[k].code = 401 /\ reqs[k].msg = "Invalid credentials"

\* The forgotPassword requests whose token was saved.
Issued(r) == r.op = "forgotPassword" /\ r.pc \in {"mail", "done"} /\ r.doc # 0

\* C23: single-latest-token-valid.  The save of a forgotPassword replaces the
\* token the user held, so the user holds the token of the latest save and
\* of no earlier one; and a resetPassword presenting an issued token that
\* its user no longer holds is answered 400, its own expiry passed or not,
\* while the token the user holds is found until it expires.
C23_SingleLatestToken ==
    [][/\ \A i \in DOMAIN reqs :
            (reqs[i].op = "forgotPassword" /\ reqs[i].pc = "save"
                /\ reqs'[i].pc = "mail") =>
                /\ users'[reqs[i].doc].resetPasswordToken = reqs[i].token
                /\ users'[reqs[i].doc].resetPasswordExpire = reqs[i].at + 3600000
                /\ \A k \in DOMAIN reqs :
                     (Issued(reqs[k]) /\ reqs[k].doc = reqs[i].doc) =>
                         users'[reqs[i].doc].resetPasswordToken # reqs[k].token
       /\ (Received /\ New.op = "resetPassword") =>
            /\ \A k \in DOMAIN reqs :
                 (/\ Issued(reqs[k]) /\ reqs[k].token = New.token
                  /\ users[reqs[k].doc].resetPasswordToken # New.token) =>
                     (New.pc = "done" /\ New.code = 400)
            /\ \A u \in DOMAIN users :
                 (users[u].resetPasswordToken = New.token
                    /\ now < users[u].resetPasswordExpire) =>
                     (New.pc = "save" /\ New.doc = u)]_vars

\* Two tokens were issued to one user, and the earlier one was refused
\* before its own expiry.
C23_Witness ==
    \E i, j, k \in DOMAIN reqs :
        /\ i < j /\ Issued(reqs[i]) /\ Issued(reqs[j]) /\ reqs[i].doc = reqs[j].doc
        /\ users[reqs[j].doc].resetPasswordToken = reqs[j].token
        /\ reqs[k].op = "resetPassword" /\ reqs[k].token = reqs[i].token
        /\ reqs[k].code = 400
        /\ reqs[k].at < reqs[i].at + 3600000

----------------------------------------------------------------------------
(* The invitation workflow on a database holding the bootstrapped         *)
(* superadmin, who has logged in.                                          *)

InitInvite ==
    /\ users = <<SuperAdminUser>>
    /\ companies = <<>>
    /\ employees = <<>>
    /\ serviceManagers = <<>>
    /\ leaves = <<>>
    /\ reqs = <<>>
    /\ sessions = {1}
    /\ nextToken = 1
    /\ now = 0
    /\ client = NewClient(Null)

NextInvite ==
    \/ \E p \in sessions, n \in CompanyNames, d \in MailOutcomes : createCompany(p, n, d)
    \/ \E tk \in 1..nextToken, e \in {"a@b.com", "c@d.com"} :
           acceptInvitationFind(tk, e, Plain("newpass"))
    \/ \E i \in DOMAIN reqs : acceptInvitationCreate(i)
    \/ \E i \in DOMAIN reqs : acceptInvitationSave(i)
    \/ \E p \in sessions, id \in DOMAIN companies, st \in Statuses :
           updateCompanyStatus(p, id, st)
    \/ Tick(InviteTTL \div 2)

SpecInvite == InitInvite /\ [][NextInvite]_vars

----------------------------------------------------------------------------
(* Properties of the invitation workflow *)

\* C1: for any invitation token, at most one acceptInvitation call presenting
\* it is answered 201, whatever the interleaving of the calls, and no two
\* companyadmin users are bound to the same company.
C1_InvitationAcceptedOnce ==
    /\ \A i, j \in DOMAIN reqs :
        (/\ reqs[i].op = "acceptInvitation" /\ reqs[j].op = "acceptInvitation"
         /\ reqs[i].token = reqs[j].token
         /\ reqs[i].code = 201 /\ reqs[j].code = 201) => i = j
    /\ \A u, v \in DOMAIN users :
        (/\ users[u].role = "companyadmin" /\ users[v].role = "companyadmin"
         /\ users[u].company = users[v].company) => u = v

\* C4: the stored password of every user is the supplied plaintext under
\* exactly one bcrypt layer.
C4_PasswordHashedOnce ==
    \A u \in DOMAIN users : users[u].password.h = 1

\* C8: an acceptInvitation whose token is held by no company whose expiry is
\* after the time of the call is answered 400, creates no user and changes no
\* company; the expiry of an invitation is its creation time plus 24 hours.
C8_ExpiredInvitationRejected ==
    [][/\ (Received /\ New.op = "acceptInvitation") =>
            LET holders == {c \in DOMAIN companies :
                                companies[c].invitationToken = New.token}
            IN /\ (\A c \in holders : now >= companies[c].invitationExpires) =>
                      (/\ New.pc = "done" /\ New.code = 400
                       /\ users' = users /\ companies' = companies)
               /\ New.pc # "done" =>
                      (/\ New.doc \in holders
                       /\ now < companies[New.doc].invitationExpires)
       /\ (Received /\ New.op = "createCompany" /\ companies' # companies) =>
            companies'[Len(companies')].invitationExpires = now + 86400000
       /\ \A i \in DOMAIN reqs : reqs[i].pc = "done" => reqs'[i] = reqs[i]]_vars

C8_Witness ==
    \E i \in DOMAIN reqs, c \in DOMAIN companies :
        /\ reqs[i].op = "acceptInvitation" /\ reqs[i].code = 400
        /\ reqs[i].token # Null
        /\ companies[c].invitationToken = reqs[i].token
        /\ reqs[i].at = companies[c].invitationExpires
        /\ companies[c].admin = Null
        /\ Len(users) = 1

\* C9: once an acceptInvitation has been answered 201, the token and expiry of
\* its company are cleared, and every later acceptInvitation with the same
\* token is answered 400 and creates no user.
C9_AcceptedInvitationCleared ==
    [][/\ \A i \in DOMAIN reqs' :
            (reqs'[i].op = "acceptInvitation" /\ reqs'[i].code = 201) =>
                /\ companies'[reqs'[i].doc].invitationToken = Null
                /\ companies'[reqs'[i].doc].invitationExpires = Null
       /\ (/\ Received /\ New.op = "acceptInvitation"
           /\ \E j \in DOMAIN reqs : /\ reqs[j].op = "acceptInvitation"
                                     /\ reqs[j].code = 201
                                     /\ reqs[j].token = New.token) =>
            (New.pc = "done" /\ New.code = 400 /\ users' = users)]_vars

C9_Witness ==
    \E i, j \in DOMAIN reqs :
        /\ i < j
        /\ reqs[i].op = "acceptInvitation" /\ reqs[i].code = 201
        /\ reqs[j].op = "acceptInvitation" /\ reqs[j].code = 400
        /\ reqs[j].token = reqs[i].token
        /\ reqs[j].at = reqs[i].at
        /\ Cardinality({u \in DOMAIN users : users[u].role = "companyadmin"}) = 1

\* The status values of a company: 1 is active and 2 inactive; pending is
\* any value distinct from both.
Pending(c) == c.status \notin {1, 2}

\* C12: createCompany leaves the new company in pending status, with a fresh
\* invitation token, an expiry 24 hours ahead and no admin reference, and
\* creates no user.
C12_CreateCompanyPending ==
    [][(Received /\ New.op = "createCompany" /\ New.code = 201) =>
        LET c == companies'[Len(companies')]
        IN /\ Len(companies') = Len(companies) + 1
           /\ Pending(c)
           /\ c.invitationToken # Null
           /\ \A d \in DOMAIN companies : companies[d].invitationToken # c.invitationToken
           /\ \A u \in DOMAIN users : users[u].resetPasswordToken # c.invitationToken
           /\ c.invitationExpires = now + 86400000
           /\ c.admin = Null
           /\ users' = users]_vars

\* C13: a company becomes active only by the save of a successful
\* acceptInvitation, and a company that is not pending never becomes pending.
C13_CompanyStateMachine ==
    [][\A c \in DOMAIN companies' :
        /\ (companies'[c].status = 1
            /\ (c \notin DOMAIN companies \/ companies[c].status # 1)) =>
               \E i \in DOMAIN reqs : /\ reqs[i].op = "acceptInvitation"
                                      /\ reqs[i].pc = "save" /\ reqs[i].doc = c
                                      /\ reqs'[i].code = 201
        /\ (c \in DOMAIN companies /\ ~Pending(companies[c])) =>
               ~Pending(companies'[c])]_vars

\* C18: no companyadmin user exists while its company still carries a
\* redeemable invitation token.
C18_AcceptInvitationAtomic ==
    \A u \in DOMAIN users :
        users[u].role = "companyadmin" =>
            ~InvitationValid(companies[users[u].company],
                             companies[users[u].company].invitationToken, now)

\* C24: a company has an admin reference exactly when its invitation token
\* and expiry are cleared: createCompany stores the token and no admin, the
\* save of acceptInvitation sets the admin and clears both, and
\* updateCompanyStatus changes none of the three.
C24_AdminIffTokenCleared ==
    [][/\ \A c \in DOMAIN companies' :
            /\ companies'[c].admin # Null <=> companies'[c].invitationToken = Null
            /\ companies'[c].admin # Null <=> companies'[c].invitationExpires = Null
       /\ (Received /\ New.op = "createCompany" /\ New.doc # 0) =>
            /\ companies'[New.doc].admin = Null
            /\ companies'[New.doc].invitationToken = New.token
       /\ \A i \in DOMAIN reqs :
            (reqs[i].op = "acceptInvitation" /\ reqs[i].pc = "save"
                /\ reqs'[i].pc = "done") =>
                /\ companies'[reqs[i].doc].admin = reqs[i].uid
                /\ companies'[reqs[i].doc].invitationToken = Null
       /\ (Received /\ New.op = "updateCompanyStatus") =>
            \A c \in DOMAIN companies :
                /\ companies'[c].admin = companies[c].admin
                /\ companies'[c].invitationToken = companies[c].invitationToken
                /\ companies'[c].invitationExpires = companies[c].invitationExpires]_vars

\* An accepted company was deactivated and keeps its admin.
C24_Witness ==
    \E i, j, k \in DOMAIN reqs :
        /\ reqs[i].op = "createCompany" /\ reqs[i].doc # 0
        /\ reqs[j].op = "acceptInvitation" /\ reqs[j].code = 201
        /\ reqs[j].doc = reqs[i].doc
        /\ j < k /\ reqs[k].op = "updateCompanyStatus" /\ reqs[k].code = 200
        /\ reqs[k].id = reqs[i].doc /\ reqs[k].status = 2
        /\ companies[reqs[i].doc].admin = reqs[j].uid
        /\ companies[reqs[i].doc].invitationToken = Null
        /\ companies[reqs[i].doc].status = 2

----------------------------------------------------------------------------
(* The status operations on a database of two activated companies, Acme   *)
(* (1) and Globex (2), each with its admin (users 2 and 3), one employee   *)
(* (users 4 and 5) and one leave request.  The superadmin, the admin of    *)
(* Acme and the employee of Acme hold session tokens.  The stored          *)
(* passwords are bcrypt strings: login accepts no other, so an account    *)
(* that holds a session has one.                                           *)

InitTenant ==
    /\ users = <<SuperAdminUser,
                 NewUser("a@b.com", Hash(Plain("newpass")), "companyadmin", 1),
                 NewUser("c@d.com", Hash(Plain("newpass")), "companyadmin", 2),
                 NewUser("e@b.com", Hash(Plain("newpass")), "employee", 1),
                 NewUser("f@d.com", Hash(Plain("newpass")), "employee", 2)>>
    /\ companies = <<[NewCompany("Acme", Null, Null) EXCEPT !.admin = 2],
                     [NewCompany("Globex", Null, Null) EXCEPT !.admin = 3]>>
    /\ employees = <<[user |-> 4, company |-> 1], [user |-> 5, company |-> 2]>>
    /\ serviceManagers = <<>>
    /\ leaves = <<[employee |-> 1, company |-> 1, status |-> "pending"],
                  [employee |-> 2, company |-> 2, status |-> "pending"]>>
    /\ reqs = <<>>
    /\ sessions = {1, 2, 4}
    /\ nextToken = 3
    /\ now = 0
    /\ client = NewClient(Null)

NextTenant ==
    \/ \E p \in sessions \cup {0}, id \in 1..(Len(users) + 1), st \in Statuses :
           Len(reqs) < MaxTenantReq /\ updateUserStatus(p, id, st)
    \/ \E p \in sessions \cup {0}, id \in 1..(Len(employees) + 1), st \in Statuses :
           Len(reqs) < MaxTenantReq /\ updateEmployeeStatus(p, id, st)
    \/ \E p \in sessions \cup {0}, id \in 1..(Len(leaves) + 1), st \in LeaveStatuses :
           Len(reqs) < MaxTenantReq /\ updateLeaveStatus(p, id, st)

SpecTenant == InitTenant /\ [][NextTenant]_vars

----------------------------------------------------------------------------
(* Properties of the status operations *)

\* The company that owns the record a status request targets (0: the record
\* does not exist or has no company reference).
TargetCompany(r) ==
    IF r.op = "updateUserStatus" /\ r.id \in DOMAIN users THEN users[r.id].company
    ELSE IF r.op = "updateEmployeeStatus" /\ r.id \in DOMAIN employees
    THEN employees[r.id].company
    ELSE IF r.op = "updateLeaveStatus" /\ r.id \in DOMAIN leaves
    THEN leaves[r.id].company
    ELSE Null

\* C3: tenant isolation: a status-changing request of a companyadmin of
\* company A on a User, Employee or Leave record of another company is
\* answered 403 and changes no record.
C3_TenantIsolation ==
    [][(/\ Received
        /\ New.op \in {"updateUserStatus", "updateEmployeeStatus", "updateLeaveStatus"}
        /\ Protect(New.principal)
        /\ users[New.principal].role = "companyadmin"
        /\ TargetCompany(New) # Null
        /\ TargetCompany(New) # users[New.principal].company) =>
         (/\ New.code = 403
          /\ users' = users /\ employees' = employees /\ leaves' = leaves)]_vars

\* C14: updateUserStatus changes the target's status exactly when the
\* requester is superadmin, or companyadmin of the target's company; every
\* other requester is answered 403 and the target is unchanged.
C14_UpdateUserStatusPolicy ==
    [][(/\ Received /\ New.op = "updateUserStatus"
        /\ Protect(New.principal) /\ New.id \in DOMAIN users) =>
        LET allowed == \/ users[New.principal].role = "superadmin"
                       \/ /\ users[New.principal].role = "companyadmin"
                          /\ users[New.id].company # Null
                          /\ users[New.id].company = users[New.principal].company
        IN IF allowed
           THEN New.code = 200 /\ users' = [users EXCEPT ![New.id].status = New.status]
           ELSE New.code = 403 /\ users' = users]_vars

----------------------------------------------------------------------------
(* The role gates and the superadmin routes on the database of the two    *)
(* companies, with a service manager of Acme (user 6) added.  The          *)
(* superadmin, the admin, the employee and the service manager of Acme     *)
(* hold session tokens.                                                    *)

InitGate ==
    /\ users = <<SuperAdminUser,
                 NewUser("a@b.com", Hash(Plain("newpass")), "companyadmin", 1),
                 NewUser("c@d.com", Hash(Plain("newpass")), "companyadmin", 2),
                 NewUser("e@b.com", Hash(Plain("newpass")), "employee", 1),
                 NewUser("f@d.com", Hash(Plain("newpass")), "employee", 2),
                 NewUser("g@b.com", Hash(Plain("newpass")), "servicemanager", 1)>>
    /\ companies = <<[NewCompany("Acme", Null, Null) EXCEPT !.admin = 2],
                     [NewCompany("Globex", Null, Null) EXCEPT !.admin = 3]>>
    /\ employees = <<[user |-> 4, company |-> 1], [user |-> 5, company |-> 2]>>
    /\ serviceManagers = <<[user |-> 6, company |-> 1]>>
    /\ leaves = <<>>
    /\ reqs = <<>>
    /\ sessions = {1, 2, 4, 6}
    /\ nextToken = 3
    /\ now = 0
    /\ client = NewClient(Null)

NextGate ==
    \/ \E g \in Gates, p \in 0..Len(users) :
           Len(reqs) < MaxTenantReq /\ roleGate(g, p)
    \/ \E p \in sessions \cup {0}, n \in {"Acme", "Initech"}, d \in MailOutcomes :
           Len(reqs) < MaxTenantReq /\ createCompany(p, n, d)
    \/ \E p \in sessions \cup {0} :
           Len(reqs) < MaxTenantReq /\ getCompanies(p)
    \/ \E p \in sessions \cup {0}, id \in 1..(Len(companies) + 1), st \in Statuses :
           Len(reqs) < MaxTenantReq /\ updateCompanyStatus(p, id, st)

SpecGate == InitGate /\ [][NextGate]_vars

\* The role a gate lets through.
GateRole(g) ==
    CASE g = "superAdminOnly" -> "superadmin"
      [] g = "companyAdminOnly" -> "companyadmin"
      [] g = "serviceManagerOnly" -> "servicemanager"
      [] g = "employeeOnly" -> "employee"

\* C15: a role gate lets a request through exactly when a principal is
\* attached and has the gate's role, and answers 403 otherwise; the handlers
\* of createCompany, getCompanies and updateCompanyStatus run only for a
\* superadmin principal, and a request the gate stops changes nothing.
C15_RoleGates ==
    [][Received =>
        /\ New.op \in Gates =>
             /\ (New.code = 200) <=> (/\ New.principal \in DOMAIN users
                                      /\ users[New.principal].role = GateRole(New.op))
             /\ (New.code # 200) => (New.code = 403 /\ New.msg = GateMessage(New.op))
        /\ New.op \in {"createCompany", "getCompanies", "updateCompanyStatus"} =>
             /\ (New.code \notin {401, 403}) =>
                    (/\ New.principal \in DOMAIN users
                     /\ users[New.principal].role = "superadmin")
             /\ (Protect(New.principal) /\ users[New.principal].role # "superadmin") =>
                    (/\ New.code = 403
                     /\ New.msg = "Forbidden: Super Admin access only")
             /\ (New.code \in {401, 403}) =>
                    (companies' = companies /\ nextToken' = nextToken /\ users' = users)]_vars

C15_Witness ==
    \E i, j \in DOMAIN reqs :
        /\ reqs[i].op = "createCompany" /\ reqs[i].code = 403
        /\ users[reqs[i].principal].role = "companyadmin"
        /\ reqs[j].op = "updateCompanyStatus" /\ reqs[j].code = 200
        /\ users[reqs[j].principal].role = "superadmin"

----------------------------------------------------------------------------
(* The two workflows that send mail, with the redemption of their tokens, *)
(* on a database holding the bootstrapped superadmin, who has logged in.   *)

InitNotify == InitInvite

NextNotify ==
    \/ forgotPasswordFind(SuperAdminEmail)
    \/ \E i \in DOMAIN reqs : forgotPasswordSave(i)
    \/ \E i \in DOMAIN reqs : forgotPasswordMail(i)
    \/ \E tk \in 1..nextToken : resetPasswordFind(tk, Plain("newpass"))
    \/ \E i \in DOMAIN reqs : resetPasswordSave(i)
    \/ \E p \in sessions, d \in MailOutcomes : createCompany(p, "Acme", d)
    \/ \E tk \in 1..nextToken : acceptInvitationFind(tk, "a@b.com", Plain("newpass"))
    \/ \E i \in DOMAIN reqs : acceptInvitationCreate(i)
    \/ \E i \in DOMAIN reqs : acceptInvitationSave(i)
    \/ Tick(ResetTTL)

SpecNotify == InitNotify /\ [][NextNotify]_vars

\* The requests whose mail failed after their token was persisted.
MailFailed(r) ==
    /\ r.op \in {"forgotPassword", "createCompany"}
    /\ r.pc = "done" /\ r.code = 500 /\ r.doc # 0

\* C16: a failed mail dispatch rolls nothing back.  The step in which the
\* dispatch fails leaves the user's reset token and expiry, respectively
\* stores the company with its invitation token; a stored token is taken away
\* only by its redemption or by a newer request; and a token whose mail
\* failed is found by a redemption before its expiry.
C16_MailFailureKeepsToken ==
    [][/\ \A i \in DOMAIN reqs :
            (reqs[i].op = "forgotPassword" /\ reqs[i].pc = "mail"
                /\ reqs'[i].pc = "done") =>
                (users' = users /\ companies' = companies)
       /\ (Received /\ New.op = "createCompany" /\ MailFailed(New)) =>
            /\ companies' = Append(companies, companies'[New.doc])
            /\ companies'[New.doc].invitationToken = New.token
            /\ companies'[New.doc].invitationExpires = now + 86400000
       /\ \A u \in DOMAIN users :
            (users[u].resetPasswordToken # Null
                /\ users'[u].resetPasswordToken # users[u].resetPasswordToken) =>
                \E i \in DOMAIN reqs :
                    /\ reqs[i].doc = u /\ reqs[i].pc = "save"
                    /\ reqs[i].op \in {"resetPassword", "forgotPassword"}
                    /\ reqs'[i].pc # "save"
       /\ \A c \in DOMAIN companies :
            (companies[c].invitationToken # Null
                /\ companies'[c].invitationToken # companies[c].invitationToken) =>
                \E i \in DOMAIN reqs :
                    /\ reqs[i].doc = c /\ reqs[i].pc = "save"
                    /\ reqs[i].op = "acceptInvitation" /\ reqs'[i].code = 201
       /\ (Received /\ New.op = "resetPassword") =>
            \A i \in DOMAIN reqs :
                (/\ MailFailed(reqs[i]) /\ reqs[i].op = "forgotPassword"
                 /\ reqs[i].token = New.token
                 /\ users[reqs[i].doc].resetPasswordToken = New.token
                 /\ now < reqs[i].at + 3600000) =>
                    (New.pc = "save" /\ New.doc = reqs[i].doc)
       /\ (Received /\ New.op = "acceptInvitation") =>
            \A i \in DOMAIN reqs :
                (/\ MailFailed(reqs[i]) /\ reqs[i].op = "createCompany"
                 /\ reqs[i].token = New.token
                 /\ companies[reqs[i].doc].invitationToken = New.token
                 /\ now < reqs[i].at + 86400000) =>
                    (New.pc = "create" /\ New.doc = reqs[i].doc)]_vars

C16_Witness ==
    \E i, j, k \in DOMAIN reqs :
        /\ MailFailed(reqs[i]) /\ reqs[i].op = "forgotPassword"
        /\ reqs[j].op = "resetPassword" /\ reqs[j].token = reqs[i].token
        /\ reqs[j].code = 200
        /\ MailFailed(reqs[k]) /\ reqs[k].op = "createCompany"
        /\ companies[reqs[k].doc].invitationToken = reqs[k].token

\* C17: once the token or the company has been persisted, forgotPassword is
\* answered 200 and createCompany 201, whatever becomes of the mail.
C17_ResponseIgnoresMail ==
    \A i \in DOMAIN reqs :
        /\ (reqs[i].op = "forgotPassword" /\ reqs[i].pc = "done" /\ reqs[i].doc # 0)
               => reqs[i].code = 200
        /\ (reqs[i].op = "createCompany" /\ reqs[i].pc = "done" /\ reqs[i].doc # 0)
               => reqs[i].code = 201

----------------------------------------------------------------------------
(* Every operation that creates a user, two of each at a time.  The database *)
(* is either empty, as the first server processes start, or holds the       *)
(* superadmin, the accepted company Acme with its logged-in companyadmin and *)
(* the invited company Globex.                                               *)

CreateEmails == {"m@b.com", "n@b.com"}

InviteEmails == {"k@b.com", "n@b.com"}

InitCreate ==
    /\ \/ /\ users = <<>>
          /\ companies = <<>>
          /\ sessions = {}
          /\ nextToken = 1
       \/ /\ users = <<SuperAdminUser,
                       NewUser("a@b.com", Hash(Plain("newpass")), "companyadmin", 1)>>
          /\ companies = <<[NewCompany("Acme", Null, Null) EXCEPT !.admin = 2],
                           NewCompany("Globex", 1, InviteTTL)>>
          /\ sessions = {1, 2}
          /\ nextToken = 2
    /\ employees = <<>>
    /\ serviceManagers = <<>>
    /\ leaves = <<>>
    /\ reqs = <<>>
    /\ now = 0
    /\ client = NewClient(Null)

NextCreate ==
    \/ \E p \in sessions, e \in CreateEmails :
           createEmployeeFind(p, e, Plain("newpass"))
    \/ \E i \in DOMAIN reqs : createEmployeeCreate(i)
    \/ \E i \in DOMAIN reqs : createEmployeeRecord(i)
    \/ \E p \in sessions, e \in CreateEmails :
           createServiceManagerFind(p, e, Plain("newpass"))
    \/ \E i \in DOMAIN reqs : createServiceManagerCreate(i)
    \/ \E i \in DOMAIN reqs : createServiceManagerRecord(i)
    \/ \E tk \in 1..nextToken, e \in InviteEmails :
           acceptInvitationFind(tk, e, Plain("newpass"))
    \/ \E i \in DOMAIN reqs : acceptInvitationCreate(i)
    \/ \E i \in DOMAIN reqs : acceptInvitationSave(i)
    \/ createSuperAdminFind
    \/ \E i \in DOMAIN reqs : createSuperAdminCreate(i)

SpecCreate == InitCreate /\ [][NextCreate]_vars

\* C19: no two stored users share an email, whatever the interleaving of
\* acceptInvitation, createEmployee, createServiceManager and createSuperAdmin.
C19_EmailUnique ==
    \A u, v \in DOMAIN users : users[u].email = users[v].email => u = v

\* Two creations of different kinds passed the lookup with one email, and two
\* server processes passed the superadmin lookup; one of each was stored.
C19_Witness ==
    \/ \E i, j \in DOMAIN reqs :
        /\ reqs[i].op = "createEmployee" /\ reqs[j].op = "acceptInvitation"
        /\ reqs[i].email = reqs[j].email
        /\ reqs[i].code = 201
        /\ reqs[j].pc = "done" /\ reqs[j].code = 500 /\ reqs[j].doc # 0
    \/ \E i, j \in DOMAIN reqs :
        /\ i # j
        /\ reqs[i].op = "createSuperAdmin" /\ reqs[j].op = "createSuperAdmin"
        /\ reqs[i].msg = "Super Admin created"
        /\ reqs[j].msg = "Error creating super admin:"

\* C20: every companyadmin, servicemanager and employee user refers to a
\* stored company, and a superadmin user to none.
C20_CompanyReference ==
    \A u \in DOMAIN users :
        IF users[u].role = "superadmin"
        THEN users[u].company = Null
        ELSE users[u].company \in DOMAIN companies

C20_Witness ==
    /\ \E u \in DOMAIN users : users[u].role = "superadmin"
    /\ \E i, j, k \in DOMAIN reqs :
        /\ reqs[i].op = "createEmployee" /\ reqs[i].code = 201
        /\ users[reqs[i].uid].role = "employee"
        /\ reqs[j].op = "createServiceManager" /\ reqs[j].code = 201
        /\ users[reqs[j].uid].role = "servicemanager"
        /\ reqs[k].op = "acceptInvitation" /\ reqs[k].code = 201
        /\ users[reqs[k].uid].role = "companyadmin"

----------------------------------------------------------------------------
(* The operations on one account: the employee e@b.com of Acme, who holds  *)
(* a reset token issued at time 0, while the superadmin and Acme's         *)
(* companyadmin are logged in.                                             *)

InitAccount ==
    /\ users = <<SuperAdminUser,
                 NewUser("a@b.com", Hash(Plain("newpass")), "companyadmin", 1),
                 [NewUser("e@b.com", Hash(Plain("newpass")), "employee", 1)
                     EXCEPT !.resetPasswordToken = 1,
                            !.resetPasswordExpire = ResetTTL]>>
    /\ companies = <<[NewCompany("Acme", Null, Null) EXCEPT !.admin = 2]>>
    /\ employees = <<[user |-> 3, company |-> 1]>>
    /\ serviceManagers = <<>>
    /\ leaves = <<>>
    /\ reqs = <<>>
    /\ sessions = {1, 2}
    /\ nextToken = 2
    /\ now = 0
    /\ client = NewClient(Null)

NextAccount ==
    \/ \E id \in {3, 4}, cur \in {Plain("newpass"), Plain("wrong")} :
           changePasswordFind(id, cur, Plain("changed"))
    \/ \E i \in DOMAIN reqs : changePasswordSave(i)
    \/ resetPasswordFind(1, Plain("reset"))
    \/ \E i \in DOMAIN reqs : resetPasswordSave(i)
    \/ \E st \in Statuses : updateUserStatus(1, 3, st)
    \/ \E st \in Statuses : updateEmployeeStatus(2, 1, st)
    \/ createEmployeeFind(2, "n@b.com", Plain("newpass"))
    \/ \E i \in DOMAIN reqs : createEmployeeCreate(i)
    \/ \E i \in DOMAIN reqs : createEmployeeRecord(i)

SpecAccount == InitAccount /\ [][NextAccount]_vars

\* The fields of a user that a password change has no business with.
Identity(u) == <<u.status, u.role, u.company, u.email>>

\* C21: a user is created active; the save of changePassword and of
\* resetPassword leaves every user's status, role, company and email; and a
\* status changes only in a step of updateUserStatus or updateEmployeeStatus.
C21_StatusFrame ==
    [][/\ Len(users') > Len(users) => users'[Len(users')].status = 1
       /\ (\E i \in DOMAIN reqs :
              /\ reqs[i].op \in {"changePassword", "resetPassword"}
              /\ reqs[i].pc = "save" /\ reqs'[i].pc = "done") =>
            \A u \in DOMAIN users : Identity(users'[u]) = Identity(users[u])
       /\ \A u \in DOMAIN users :
            users'[u].status # users[u].status =>
                (Received /\ New.op \in {"updateUserStatus", "updateEmployeeStatus"})]_vars

\* A password was changed in place on an account that had been deactivated
\* while the change was under way, and a new user was created.
C21_Witness ==
    \E i, j, k \in DOMAIN reqs :
        /\ reqs[i].op = "changePassword" /\ reqs[i].code = 200
        /\ reqs[i].snap = 1 /\ users[reqs[i].doc].status = 2
        /\ users[reqs[i].doc].password = reqs[i].newPassword
        /\ reqs[j].op \in {"updateUserStatus", "updateEmployeeStatus"}
        /\ reqs[j].code = 200
        /\ reqs[k].op = "createEmployee" /\ reqs[k].uid # 0
        /\ users[reqs[k].uid].status = 1

\* C26: changePassword answers 404 for an id no user has and 400 for a
\* current password that does not match the stored one, changing no user in
\* either case; and its save replaces the password of the target alone, and
\* only for a request whose current password matched.
C26_ChangePasswordVerifies ==
    [][/\ (Received /\ New.op = "changePassword") =>
            /\ users' = users
            /\ New.id \notin DOMAIN users =>
                   (New.pc = "done" /\ New.code = 404)
            /\ (New.id \in DOMAIN users
                  /\ ~BcryptCompare(New.password, users[New.id].password)) =>
                   (New.pc = "done" /\ New.code = 400)
       /\ \A i \in DOMAIN reqs :
            (reqs[i].op = "changePassword" /\ reqs[i].pc = "save"
                /\ reqs'[i].pc = "done") =>
                /\ reqs[i].match
                /\ reqs'[i].code = 200
                /\ users' = [users EXCEPT ![reqs[i].id].password = reqs[i].newPassword]]_vars

C26_Witness ==
    \E i, j, k \in DOMAIN reqs :
        /\ reqs[i].op = "changePassword" /\ reqs[i].code = 200
        /\ users[reqs[i].id].password = reqs[i].newPassword
        /\ reqs[j].op = "changePassword" /\ reqs[j].code = 400
        /\ reqs[j].id \in DOMAIN users
        /\ reqs[k].op = "changePassword" /\ reqs[k].code = 404
        /\ reqs[k].id \notin DOMAIN users

----------------------------------------------------------------------------
(* Server processes starting on an empty database, while the superadmin's *)
(* password is changed and logins are tried.                              *)

InitBootstrap ==
    /\ users = <<>>
    /\ companies = <<>>
    /\ employees = <<>>
    /\ serviceManagers = <<>>
    /\ leaves = <<>>
    /\ reqs = <<>>
    /\ sessions = {}
    /\ nextToken = 1
    /\ now = 0
    /\ client = NewClient(Null)

NextBootstrap ==
    \/ createSuperAdminFind
    \/ \E i \in DOMAIN reqs : createSuperAdminCreate(i)
    \/ \E cur \in {SuperAdminPassword, Plain("wrong")} :
           changePasswordFind(1, cur, Plain("changed"))
    \/ \E i \in DOMAIN reqs : changePasswordSave(i)
    \/ \E pw \in Passwords : login(SuperAdminEmail, pw)

SpecBootstrap == InitBootstrap /\ [][NextBootstrap]_vars

\* C22: createSuperAdmin is idempotent.  A step of a run changes no stored
\* user and adds one only when none holds the superadmin email; so at most
\* one user holds it, exactly one once a run has ended, and the password the
\* first successful run wrote is rewritten by no later run.
C22_BootstrapIdempotent ==
    [][/\ Cardinality({u \in DOMAIN users' : users'[u].email = SuperAdminEmail}) <= 1
       /\ (\E i \in DOMAIN reqs' :
              reqs'[i].op = "createSuperAdmin" /\ reqs'[i].pc = "done") =>
            Cardinality({u \in DOMAIN users' : users'[u].email = SuperAdminEmail}) = 1
       /\ ((Received /\ New.op = "createSuperAdmin")
             \/ \E i \in DOMAIN reqs :
                    reqs[i].op = "createSuperAdmin" /\ reqs'[i] # reqs[i]) =>
            /\ \A u \in DOMAIN users : users'[u] = users[u]
            /\ Len(users') > Len(users) =>
                 /\ \A u \in DOMAIN users : users[u].email # SuperAdminEmail
                 /\ users' = Append(users, SuperAdminUser)]_vars

\* Two runs passed the existence check together, one of them created the
\* superadmin, whose password was changed before the other run's create.
C22_Witness ==
    \E i, j, k \in DOMAIN reqs :
        /\ reqs[i].op = "createSuperAdmin" /\ reqs[i].msg = "Super Admin created"
        /\ reqs[j].op = "createSuperAdmin"
        /\ reqs[j].msg = "Error creating super admin:"
        /\ reqs[k].op = "changePassword" /\ reqs[k].code = 200
        /\ users[reqs[i].uid].password = Plain("changed")
        /\ Cardinality({u \in DOMAIN users : users[u].email = SuperAdminEmail}) = 1

\* The creation requests that passed the gates and have been answered.
Answered(r) ==
    /\ r.op \in {"createEmployee", "createServiceManager"}
    /\ r.pc = "done" /\ r.code \notin {401, 403}

\* C27: createEmployee and createServiceManager answer an email that belongs
\* to a user with 400 User already exists and create nothing, also when two
\* calls with one new email run together: one is answered 201 and the other
\* 400.
C27_DuplicateEmailIs400 ==
    \A i \in DOMAIN reqs :
        Answered(reqs[i]) =>
            \/ reqs[i].code = 201 /\ users[reqs[i].uid].email = reqs[i].email
            \/ reqs[i].code = 400 /\ reqs[i].msg = "User already exists"
                 /\ reqs[i].uid = 0

\* C28: every user with role employee has exactly one Employee record
\* referring to it.
C28_EmployeeHasRecord ==
    \A u \in DOMAIN users :
        users[u].role = "employee" =>
            Cardinality({e \in DOMAIN employees : employees[e].user = u}) = 1

----------------------------------------------------------------------------
(* Two tenants, Acme and Globex, each with its companyadmin and one        *)
(* employee, all four logged in: employees are created and leaves filed.   *)

InitOwnership ==
    /\ users = <<SuperAdminUser,
                 NewUser("a@b.com", Hash(Plain("newpass")), "companyadmin", 1),
                 NewUser("c@d.com", Hash(Plain("newpass")), "companyadmin", 2),
                 NewUser("e@b.com", Hash(Plain("newpass")), "employee", 1),
                 NewUser("f@d.com", Hash(Plain("newpass")), "employee", 2)>>
    /\ companies = <<[NewCompany("Acme", Null, Null) EXCEPT !.admin = 2],
                     [NewCompany("Globex", Null, Null) EXCEPT !.admin = 3]>>
    /\ employees = <<[user |-> 4, company |-> 1], [user |-> 5, company |-> 2]>>
    /\ serviceManagers = <<>>
    /\ leaves = <<>>
    /\ reqs = <<>>
    /\ sessions = {2, 3, 4, 5}
    /\ nextToken = 1
    /\ now = 0
    /\ client = NewClient(Null)

NextOwnership ==
    \/ \E p \in {2, 3}, e \in {"m@b.com", "n@b.com"} :
           createEmployeeFind(p, e, Plain("newpass"))
    \/ \E i \in DOMAIN reqs : createEmployeeCreate(i)
    \/ \E i \in DOMAIN reqs : createEmployeeRecord(i)
    \/ \E p \in sessions : createLeaveFind(p)
    \/ \E i \in DOMAIN reqs : createLeaveCreate(i)
    \/ \E p \in {2, 3}, id \in DOMAIN leaves, st \in LeaveStatuses :
           updateLeaveStatus(p, id, st)

SpecOwnership == InitOwnership /\ [][NextOwnership]_vars

\* C29: the company of an Employee record is the company of its user, the
\* company of a Leave record is the company of its employee, and both are
\* the company of the principal whose request created the record.
C29_OwnershipChain ==
    /\ \A e \in DOMAIN employees :
          employees[e].company = users[employees[e].user].company
    /\ \A l \in DOMAIN leaves :
          leaves[l].company = employees[leaves[l].employee].company
    /\ \A i \in DOMAIN reqs :
          /\ (reqs[i].op = "createEmployee" /\ reqs[i].code = 201) =>
                /\ employees[reqs[i].doc].user = reqs[i].uid
                /\ employees[reqs[i].doc].company = users[reqs[i].principal].company
          /\ (reqs[i].op = "createLeave" /\ reqs[i].code = 201) =>
                /\ employees[leaves[reqs[i].doc].employee].user = reqs[i].principal
                /\ leaves[reqs[i].doc].company = users[reqs[i].principal].company

\* Globex's companyadmin created an employee and Globex's employee filed a
\* leave, which the companyadmin then decided.
C29_Witness ==
    \E i, j, k \in DOMAIN reqs :
        /\ reqs[i].op = "createEmployee" /\ reqs[i].code = 201
        /\ users[reqs[i].principal].company = 2
        /\ reqs[j].op = "createLeave" /\ reqs[j].code = 201
        /\ leaves[reqs[j].doc].company = 2
        /\ reqs[k].op = "updateLeaveStatus" /\ reqs[k].code = 200

----------------------------------------------------------------------------
(* One browser against the server: it opens the application with no token *)
(* or with the superadmin's token of an earlier visit, logs in and out.    *)

InitClient ==
    /\ users = <<SuperAdminUser,
                 NewUser("a@b.com", Hash(Plain("newpass")), "companyadmin", 1)>>
    /\ companies = <<[NewCompany("Acme", Null, Null) EXCEPT !.admin = 2]>>
    /\ employees = <<>>
    /\ serviceManagers = <<>>
    /\ leaves = <<>>
    /\ reqs = <<>>
    /\ \/ sessions = {} /\ client = NewClient(Null)
       \/ sessions = {1} /\ client = NewClient(1)
    /\ nextToken = 1
    /\ now = 0

NextClient ==
    \/ verifyAuthStart
    \/ \E o \in ProfileOutcomes : verifyAuthResponse(o)
    \/ \E e \in {SuperAdminEmail, "a@b.com", ""}, pw \in Passwords :
           handleSubmit(e, pw)
    \/ \E failed \in BOOLEAN : handleSubmitResponse(failed)
    \/ handleLogout

SpecClient == InitClient /\ [][NextClient]_vars

\* C30: in every state the App reaches, isAuthenticated holds exactly when
\* user is set, and only while a token is stored under 'hrmsToken'; a logout
\* and a failed verification remove the stored token; and the verification
\* ends with loadingAuth false, which stays false.
C30_ClientSession ==
    [][/\ client'.isAuthenticated <=> client'.user # Null
       /\ client'.isAuthenticated => client'.hrmsToken # Null
       /\ (client.isAuthenticated /\ ~client'.isAuthenticated) =>
              client'.hrmsToken = Null
       /\ (client.pc = "verifying" /\ client'.pc # "verifying"
             /\ ~client'.isAuthenticated) =>
              client'.hrmsToken = Null
       /\ (client.pc \in {"mount", "verifying"}
             /\ client'.pc \notin {"mount", "verifying"}) =>
              ~client'.loadingAuth
       /\ ~client.loadingAuth => ~client'.loadingAuth]_vars

\* The browser opened with the token of an earlier visit, later logged in as
\* the companyadmin and out again.
C30_Witness ==
    /\ sessions = {1, 2}
    /\ client.pc = "ready" /\ ~client.loadingAuth
    /\ ~client.isAuthenticated /\ client.user = Null /\ client.hrmsToken = Null
    /\ client.req # 0 /\ reqs[client.req].code = 200 /\ client.error = ""

====
